---- MODULE Spec2Model ----
(***************************************************************************)
(* Model of the rm68120 display driver (src/src/lib.rs).                   *)
(*                                                                         *)
(* The driver owns a write-only command/data interface and a delay         *)
(* handle.  The interface is modelled as a spy: the sequence of the        *)
(* transactions it was asked to send, each with the result the bus gave.   *)
(* The delay handle is modelled as the sequence of the waits requested.    *)
(*                                                                         *)
(* Two specifications:                                                     *)
(*   Spec        a constructed driver, driven through enable, disable,     *)
(*               the accessors and write_iter;                             *)
(*   SpecConfig  the builder, build, the accessors of the built driver,    *)
(*               and the Orientation predicates.                           *)
(***************************************************************************)
EXTENDS Integers, Sequences, FiniteSets, TLC

VARIABLES
    builder,    \* the Rm68120Builder
    session,    \* <<>> before construction, <<driver>> after
    args,       \* <<>> or <<the arguments the caller gave Rm68120::new>>
    built,      \* <<>> or <<the builder calls made before the last build>>
    hist,       \* the fallible driver calls made so far, in call order
    ret,        \* the last call and the value it returned
    probe       \* the last Orientation classified and what each predicate said

vars == <<builder, session, args, built, hist, ret, probe>>

----------------------------------------------------------------------------
(* Bounds *)

MaxCalls == 3       \* fallible driver calls per behaviour
MaxPixels == 2      \* pixel words per write_iter call

(* Input sets *)

Widths == {320, 800}
Heights == {240, 480}
PixelWords == {63488}
TransportErrors == {"BusWriteError", "DCError"}
TransportResults == {"Ok"} \cup TransportErrors

PixelData == UNION {[1..n -> PixelWords] : n \in 0..MaxPixels}

----------------------------------------------------------------------------
(* Orientation *)

Orientations == {"Landscape", "LandscapeFlipped", "Portrait", "PortraitFlipped"}

is_landscape(o) ==
    CASE o \in {"Landscape", "LandscapeFlipped"} -> TRUE
      [] OTHER -> FALSE

is_portrait_Mut(o) ==
    CASE o \in {"Portrait", "PortraitFlipped", "LandscapeFlipped"} -> TRUE
      [] OTHER -> FALSE

is_portrait(o) ==
    CASE o \in {"Portrait", "PortraitFlipped"} -> TRUE
      [] OTHER -> FALSE

----------------------------------------------------------------------------
(* Command: the discriminants of the power and memory-write commands *)

SetDisplayOff == 10240          \* 0x2800
SetDisplayOn == 10496           \* 0x2900
WriteMemoryStart == 11264       \* 0x2C00
WriteMemoryContinue == 15360    \* 0x3C00

\* `command as u16`
as_u16(c) == c % 65536

\* core::iter::once
once(w) == <<w>>

----------------------------------------------------------------------------
(* The interface (WriteOnlyDataCommand) and the delay (DelayMs) *)

NewInterface == <<>>
NewDelay == <<>>

\* interface.send_commands(DataFormat::U16BEIter(words)), the bus answering r
send_commands(interface, words, r) ==
    [interface |-> Append(interface, [kind |-> "command", words |-> words, res |-> r]),
     res |-> r]

\* interface.send_data(DataFormat::U16BEIter(words)), the bus answering r
send_data(interface, words, r) ==
    [interface |-> Append(interface, [kind |-> "data", words |-> words, res |-> r]),
     res |-> r]

----------------------------------------------------------------------------
(* Driver *)

Rm68120_new_Mut(interface, delay, w, h, o) ==
    [interface |-> interface, delay |-> delay,
     width |-> h, height |-> w, orientation |-> o]

Rm68120_new(interface, delay, w, h, o) ==
    [interface |-> interface, delay |-> delay,
     width |-> w, height |-> h, orientation |-> o]

orientation(s) == s.orientation

width(s) == s.width

height(s) == s.height

\* a retry after a failed send, the error then reported as success
command_Mut(s, c, r) ==
    LET first == send_commands(s.interface, once(as_u16(c)), r)
        again == send_commands(first.interface, once(as_u16(c)), "Ok")
    IN  IF first.res # "Ok"
        THEN [session |-> [s EXCEPT !.interface = again.interface], val |-> "Ok"]
        ELSE [session |-> [s EXCEPT !.interface = first.interface], val |-> "Ok"]

\* a call returns the driver as the call left it and the value returned
command(s, c, r) ==
    LET sent == send_commands(s.interface, once(as_u16(c)), r)
    IN  IF sent.res # "Ok"
        THEN [session |-> [s EXCEPT !.interface = sent.interface], val |-> sent.res]
        ELSE [session |-> [s EXCEPT !.interface = sent.interface], val |-> "Ok"]

enable_Mut(s, r) == command(s, SetDisplayOff, r)

enable(s, r) == command(s, SetDisplayOn, r)

disable_Mut(s, r) ==
    LET done == command(s, SetDisplayOff, r)
    IN  [done EXCEPT !.session.orientation = "Landscape"]

disable(s, r) == command(s, SetDisplayOff, r)

write_iter(s, data, r) ==
    LET sent == send_data(s.interface, data, r)
    IN  IF sent.res # "Ok"
        THEN [session |-> [s EXCEPT !.interface = sent.interface], val |-> sent.res]
        ELSE [session |-> [s EXCEPT !.interface = sent.interface], val |-> "Ok"]

----------------------------------------------------------------------------
(* Builder *)

DEFAULT_WIDTH == 800
DEFAULT_HEIGHT == 480

Rm68120Builder_new ==
    [width |-> DEFAULT_WIDTH, height |-> DEFAULT_HEIGHT, orientation |-> "Landscape"]

with_dimensions(b, w, h) == [b EXCEPT !.width = w, !.height = h]

with_orientation_Mut(b, o) ==
    [width |-> DEFAULT_WIDTH, height |-> DEFAULT_HEIGHT, orientation |-> o]

with_orientation(b, o) == [b EXCEPT !.orientation = o]

build(b, interface, delay) ==
    Rm68120_new(interface, delay, b.width, b.height, b.orientation)

----------------------------------------------------------------------------
(* State machine *)

NoRet == [op |-> "none", val |-> "none"]
NoProbe == [o |-> "none", land |-> <<>>, port |-> <<>>]

\* The builder's calls, as the caller made them: the arguments of the most
\* recent with_dimensions and with_orientation, <<>> when never called.
NoConfig == [dims |-> <<>>, orient |-> <<>>]

\* a driver constructed directly, with any arguments
Init ==
    /\ builder = [cfg |-> Rm68120Builder_new, calls |-> NoConfig]
    /\ \E w \in Widths, h \in Heights, o \in Orientations :
         /\ args = <<[width |-> w, height |-> h, orientation |-> o]>>
         /\ session = <<Rm68120_new(NewInterface, NewDelay, w, h, o)>>
    /\ built = <<>>
    /\ hist = <<>>
    /\ ret = NoRet
    /\ probe = NoProbe

\* a fresh builder, no driver yet
InitConfig ==
    /\ builder = [cfg |-> Rm68120Builder_new, calls |-> NoConfig]
    /\ args = <<>>
    /\ session = <<>>
    /\ built = <<>>
    /\ hist = <<>>
    /\ ret = NoRet
    /\ probe = NoProbe

Enable ==
    /\ session # <<>>
    /\ Len(hist) < MaxCalls
    /\ \E r \in TransportResults :
         LET done == enable(session[1], r)
         IN  /\ session' = <<done.session>>
             /\ ret' = [op |-> "enable", val |-> done.val]
             /\ hist' = Append(hist, [op |-> "enable", r |-> r, data |-> <<>>])
    /\ UNCHANGED <<builder, args, built, probe>>

Disable ==
    /\ session # <<>>
    /\ Len(hist) < MaxCalls
    /\ \E r \in TransportResults :
         LET done == disable(session[1], r)
         IN  /\ session' = <<done.session>>
             /\ ret' = [op |-> "disable", val |-> done.val]
             /\ hist' = Append(hist, [op |-> "disable", r |-> r, data |-> <<>>])
    /\ UNCHANGED <<builder, args, built, probe>>

WriteIter ==
    /\ session # <<>>
    /\ Len(hist) < MaxCalls
    /\ \E data \in PixelData, r \in TransportResults :
         LET done == write_iter(session[1], data, r)
         IN  /\ session' = <<done.session>>
             /\ ret' = [op |-> "write_iter", val |-> done.val]
             /\ hist' = Append(hist, [op |-> "write_iter", r |-> r, data |-> data])
    /\ UNCHANGED <<builder, args, built, probe>>

GetOrientation ==
    /\ session # <<>>
    /\ ret' = [op |-> "orientation", val |-> orientation(session[1])]
    /\ UNCHANGED <<builder, session, args, built, hist, probe>>

GetWidth ==
    /\ session # <<>>
    /\ ret' = [op |-> "width", val |-> width(session[1])]
    /\ UNCHANGED <<builder, session, args, built, hist, probe>>

GetHeight ==
    /\ session # <<>>
    /\ ret' = [op |-> "height", val |-> height(session[1])]
    /\ UNCHANGED <<builder, session, args, built, hist, probe>>

WithDimensions ==
    /\ \E w \in Widths, h \in Heights :
         builder' = [cfg |-> with_dimensions(builder.cfg, w, h),
                     calls |-> [builder.calls EXCEPT !.dims = <<w, h>>]]
    /\ UNCHANGED <<session, args, built, hist, ret, probe>>

WithOrientation ==
    /\ \E o \in Orientations :
         builder' = [cfg |-> with_orientation(builder.cfg, o),
                     calls |-> [builder.calls EXCEPT !.orient = <<o>>]]
    /\ UNCHANGED <<session, args, built, hist, ret, probe>>

\* build borrows the builder: it can be changed and built from again
Build ==
    /\ session' = <<build(builder.cfg, NewInterface, NewDelay)>>
    /\ built' = <<builder.calls>>
    /\ ret' = [op |-> "build", val |-> "driver"]
    /\ UNCHANGED <<builder, args, hist, probe>>

IsLandscape ==
    /\ \E o \in Orientations :
         probe' = [o |-> o, land |-> <<is_landscape(o)>>,
                   port |-> IF probe.o = o THEN probe.port ELSE <<>>]
    /\ UNCHANGED <<builder, session, args, built, hist, ret>>

IsPortrait ==
    /\ \E o \in Orientations :
         probe' = [o |-> o, port |-> <<is_portrait(o)>>,
                   land |-> IF probe.o = o THEN probe.land ELSE <<>>]
    /\ UNCHANGED <<builder, session, args, built, hist, ret>>

Next ==
    \/ Enable
    \/ Disable
    \/ WriteIter
    \/ GetOrientation
    \/ GetWidth
    \/ GetHeight

NextConfig ==
    \/ WithDimensions
    \/ WithOrientation
    \/ Build
    \/ GetOrientation
    \/ GetWidth
    \/ GetHeight
    \/ IsLandscape
    \/ IsPortrait

Spec == Init /\ [][Next]_vars

SpecConfig == InitConfig /\ [][NextConfig]_vars

----------------------------------------------------------------------------
(* Properties *)

Last(q) == q[Len(q)]

PowerOnly == \A i \in 1..Len(hist) : hist[i].op \in {"enable", "disable"}

AllSent == \A i \in 1..Len(hist) : hist[i].r = "Ok"

\* the command transaction a power call is to issue: 0x2900 on, 0x2800 off
PowerTransaction(call) ==
    [kind |-> "command",
     words |-> <<IF call.op = "enable" THEN 10496 ELSE 10240>>,
     res |-> call.r]

\* C1: a write_iter call made while no set_window has succeeded fails with
\* NoActiveWindow.  The driver has no set_window and keeps no window, so no
\* set_window has succeeded in any state: every write_iter call is to fail
\* with NoActiveWindow.
C1_WriteWithoutWindowFails ==
    ret.op = "write_iter" => ret.val = "NoActiveWindow"

\* C2: every data transaction the interface receives is immediately preceded
\* by a command transaction carrying memory-write-start (0x2C00) or
\* memory-write-continue (0x3C00).
C2_DataPrecededByWriteCommand ==
    session # <<>> =>
        \A i \in 1..Len(session[1].interface) :
            session[1].interface[i].kind = "data" =>
                /\ i > 1
                /\ session[1].interface[i - 1].kind = "command"
                /\ session[1].interface[i - 1].words \in {<<11264>>, <<15360>>}

\* C5: after any sequence of enable and disable calls on a bus that never
\* fails, the interface has received exactly one command transaction per
\* call, in call order, each carrying the single code 0x2900 (enable) or
\* 0x2800 (disable), no data transaction, and the delay was never used.
C5_PowerCallsIssueOneCode ==
    (session # <<>> /\ PowerOnly /\ AllSent) =>
        /\ session[1].interface = [i \in 1..Len(hist) |-> PowerTransaction(hist[i])]
        /\ session[1].delay = <<>>

C5_Witness ==
    /\ Len(hist) >= 2
    /\ PowerOnly /\ AllSent
    /\ hist[1].op = "enable"
    /\ hist[2].op = "disable"

\* C6: when the bus fails the send of an enable or disable call, the call
\* returns that same error, the interface saw exactly one attempt from the
\* call (the failed command), and the delay was not used.
C6_SendErrorPropagated ==
    (ret.op \in {"enable", "disable"} /\ Last(hist).r # "Ok") =>
        /\ ret.val = Last(hist).r
        /\ Len(session[1].interface) = Len(hist)
        /\ Last(session[1].interface) = PowerTransaction(Last(hist))
        /\ session[1].delay = <<>>

C6_Witness ==
    /\ ret.op = "disable"
    /\ ret.val = "DCError"
    /\ Len(hist) >= 2
    /\ hist[1].r = "BusWriteError"

\* C7: until a fallible call is made, the constructed driver has issued no
\* transaction and no delay, and width(), height() and orientation() return
\* the values given to the constructor.
C7_ConstructAndReadBack ==
    (args # <<>> /\ hist = <<>>) =>
        /\ session[1].interface = <<>>
        /\ session[1].delay = <<>>
        /\ ret.op = "width" => ret.val = args[1].width
        /\ ret.op = "height" => ret.val = args[1].height
        /\ ret.op = "orientation" => ret.val = args[1].orientation

C7_Witness ==
    /\ hist = <<>>
    /\ args # <<>>
    /\ ret.op = "width"
    /\ ret.val = 320
    /\ args[1].height = 480
    /\ args[1].orientation = "PortraitFlipped"

\* C8: for an orientation both predicates were asked about, exactly one of
\* is_landscape and is_portrait answered true, is_landscape exactly for
\* Landscape and LandscapeFlipped.
C8_LandscapeXorPortrait ==
    (probe.land # <<>> /\ probe.port # <<>>) =>
        /\ probe.land[1] # probe.port[1]
        /\ probe.land[1] <=> probe.o \in {"Landscape", "LandscapeFlipped"}

C8_Witness ==
    /\ probe.o = "LandscapeFlipped"
    /\ probe.land = <<TRUE>>
    /\ probe.port = <<FALSE>>

\* C9: a driver built from a builder has width 800 and height 480 unless
\* with_dimensions was called, then the arguments of its last call, and
\* orientation Landscape unless with_orientation was called, then the
\* argument of its last call; its accessors return the same; build issues no
\* transaction and no delay.
C9_BuildUsesBuilderConfig ==
    (built # <<>>) =>
        LET w == IF built[1].dims = <<>> THEN 800 ELSE built[1].dims[1]
            h == IF built[1].dims = <<>> THEN 480 ELSE built[1].dims[2]
            o == IF built[1].orient = <<>> THEN "Landscape" ELSE built[1].orient[1]
        IN  /\ session[1].width = w
            /\ session[1].height = h
            /\ session[1].orientation = o
            /\ session[1].interface = <<>>
            /\ session[1].delay = <<>>
            /\ ret.op = "width" => ret.val = w
            /\ ret.op = "height" => ret.val = h
            /\ ret.op = "orientation" => ret.val = o

C9_Witness ==
    /\ built # <<>>
    /\ built[1].dims = <<320, 240>>
    /\ built[1].orient = <<"Portrait">>
    /\ builder.calls.orient = <<"Landscape">>
    /\ ret.op = "width"

\* C10: after any sequence of enable, disable and accessor calls, whatever
\* the bus answered, the driver's width, height and orientation are the
\* constructor's and the accessors return them.
C10_PowerCallsKeepGeometry ==
    (args # <<>> /\ PowerOnly) =>
        /\ width(session[1]) = args[1].width
        /\ height(session[1]) = args[1].height
        /\ orientation(session[1]) = args[1].orientation
        /\ ret.op = "width" => ret.val = args[1].width
        /\ ret.op = "height" => ret.val = args[1].height
        /\ ret.op = "orientation" => ret.val = args[1].orientation

C10_Witness ==
    /\ args # <<>>
    /\ PowerOnly
    /\ Len(hist) >= 2
    /\ hist[1].op = "disable" /\ hist[1].r = "DCError"
    /\ hist[2].op = "enable" /\ hist[2].r = "Ok"
    /\ ret.op = "orientation"
    /\ ret.val = "Portrait"


====
